---------------------------- MODULE Spec2Model ----------------------------
(***************************************************************************)
(* O3DE clean-install automation script (o3de_setup.py).                  *)
(*                                                                         *)
(* The script is one sequential process: O3DESetup.run checks the tools,  *)
(* prompts for four paths and a confirmation, deletes existing            *)
(* installations on request, runs seven setup steps that shell out to     *)
(* git, cmake and scripts/o3de.bat, and optionally compiles the project.  *)
(*                                                                         *)
(* Text is a sequence of symbols.  A symbol is a blank " ", the Windows   *)
(* path separator "\\", or a run of other characters ("y", "C:", "o3de"). *)
(* A path (pathlib.Path on Windows, the platform the script targets) is   *)
(* the sequence of its components, each a non-empty text without          *)
(* separators.  The filesystem is the set of existing directories, keyed  *)
(* by case-folded path: Windows file names are case-insensitive.          *)
(***************************************************************************)
EXTENDS Integers, Sequences, FiniteSets, TLC

VARIABLES
    pc,             \* position of the process in the script
    waiting,        \* inside subprocess.run: the child is spawned, not yet reaped
    running,        \* the subprocess.run calls in progress
    invoked,        \* log of subprocess.run calls: [cmd, rc], in order
    i,              \* run(): index of the step in `steps` (enumerate from 1)
    n,              \* nuke_existing_installations(): index in paths_to_check
    o3de_source,    \* self.o3de_source
    build_path,     \* self.build_path
    packages_path,  \* self.packages_path
    project_path,   \* self.project_path
    project_name,   \* self.project_name
    fs,             \* the filesystem: keys of the existing directories
    fs_start,       \* the filesystem when the script started
    typed,          \* the line most recently read by input(), as typed
    prompted,       \* directories the "Delete this directory?" prompt was shown for
    confirmed,      \* directories that prompt was answered affirmatively for
    trace,          \* functions run() has called: [fn, ret], in order
    printed,        \* the outcome banners printed so far
    result,         \* what run() returned
    exit_status     \* the status the process exited with

vars == <<pc, waiting, running, invoked, i, n, o3de_source, build_path,
          packages_path, project_path, project_name, fs, fs_start, typed,
          prompted, confirmed, trace, printed, result, exit_status>>

-----------------------------------------------------------------------------
(* Bounds and input alphabets *)

\* longest line typed at a prompt in the get_user_paths specification
MaxLen == 2

\* symbols typed at a path prompt, and at a y/n prompt
PathChars == {" ", "\\", "a"}
AnsChars == {" ", "y", "Y", "n"}

\* all texts over alphabet A of length at most k
Texts(A, k) == UNION {[1..m -> A] : m \in 0..k}

\* lines typed during a whole run
RunLines == {<<>>, <<"a">>}
RunAnswers == {<<"y">>, <<"n">>, <<>>}

\* exit codes of an external command: success, and a representative failure
ExitCodes == {0, 1}

-----------------------------------------------------------------------------
(* str.strip, str.lower, pathlib.Path *)

IsSpace(c) == c = " "

RECURSIVE LStrip(_)
LStrip(s) == IF s # <<>> /\ IsSpace(Head(s)) THEN LStrip(Tail(s)) ELSE s

RECURSIVE RStrip(_)
RStrip(s) ==
    IF s # <<>> /\ IsSpace(s[Len(s)]) THEN RStrip(SubSeq(s, 1, Len(s) - 1)) ELSE s

\* str.strip()
Strip(s) == RStrip(LStrip(s))

\* str.lower() of one symbol
LowerChar(c) ==
    CASE c = "Y" -> "y"
      [] c = "C:" -> "c:"
      [] c = "O3DE" -> "o3de"
      [] OTHER -> c

\* str.lower()
Lower(s) == [k \in DOMAIN s |-> LowerChar(s[k])]

Sep == "\\"

\* the components of a text: the maximal runs without a separator
RECURSIVE Split(_, _)
Split(s, cur) ==
    IF s = <<>> THEN (IF cur = <<>> THEN <<>> ELSE <<cur>>)
    ELSE IF Head(s) = Sep
         THEN (IF cur = <<>> THEN <<>> ELSE <<cur>>) \o Split(Tail(s), <<>>)
         ELSE Split(Tail(s), Append(cur, Head(s)))

\* Path(text)
PathOf(s) == Split(s, <<>>)

\* path / name
Join(p, name) == Append(p, <<name>>)

\* path.name
NameOf(p) == IF p = <<>> THEN <<>> ELSE p[Len(p)]

\* path.parent
Parent(p) == IF p = <<>> THEN <<>> ELSE SubSeq(p, 1, Len(p) - 1)

\* attributes before get_user_paths has set them
None == << <<"None">> >>

-----------------------------------------------------------------------------
(* The filesystem *)

\* the directory a path names
Key(p) == [k \in DOMAIN p |-> Lower(p[k])]

IsPrefix(p, q) == Len(p) <= Len(q) /\ SubSeq(q, 1, Len(p)) = p

Prefixes(p) == {SubSeq(p, 1, k) : k \in 0..Len(p)}

\* path.exists()
Exists(p, f) == Key(p) \in f

\* path.mkdir(parents=True, exist_ok=True)
Mkdir(p, f) == f \cup Prefixes(Key(p))

\* the directories at or below p
Under(p, f) == {q \in f : IsPrefix(Key(p), q) /\ q # <<>>}

PrefixClosed(f) == \A q \in f : Prefixes(q) \subseteq f

\* shutil.rmtree(path, ignore_errors=True): removes the tree bottom-up and
\* carries on past every error, so any part of the tree may survive.
RmtreeOutcomes(p, f) ==
    {f \ R : R \in {X \in SUBSET Under(p, f) : PrefixClosed(f \ X)}}

\* the least filesystem in which the directories S exist
Closure(S) == {<<>>} \cup UNION {Prefixes(Key(p)) : p \in S}

\* directories that may exist when the script starts: an engine at the
\* alternate location C:\O3DE, its build tree, and a directory of the user's
Seeds ==
    {<< <<"C:">>, <<"O3DE">> >>,
     << <<"C:">>, <<"O3DE">>, <<"build">>, <<"windows">> >>,
     << <<"a">> >>,
     << <<"a">>, <<"b">> >>}

StartFilesystems == {Closure(S) : S \in SUBSET Seeds}

-----------------------------------------------------------------------------
(* Bookkeeping shared by the actions *)

pathVars == <<o3de_source, build_path, packages_path, project_path, project_name>>
nukeVars == <<n, prompted, confirmed>>
procVars == <<waiting, running, invoked>>

\* run() calls self.<fn>()
Call(t, fn) == Append(t, [fn |-> fn, ret |-> "running"])

\* the function called last returns v ("True", "False") or raises ("raised")
Ret(t, v) == [t EXCEPT ![Len(t)].ret = v]

\* what a subprocess.run call can come to: the child exits with a code, or
\* the executable is not found and no child exists (FileNotFoundError)
Outcomes == [st : {"exited"}, rc : ExitCodes] \cup {[st |-> "notfound", rc |-> 0]}

\* the external command each call site runs
CmdAt ==
    [git_version       |-> "git --version",
     lfs_version       |-> "git lfs --version",
     lfs_install       |-> "git lfs install",
     cmake_version     |-> "cmake --version",
     git_clone         |-> "git clone",
     clone_lfs_install |-> "git lfs install (repo)",
     clone_lfs_pull    |-> "git lfs pull",
     git_remote        |-> "git remote get-url origin",
     cmake_engine      |-> "cmake -B build -S source",
     register_engine   |-> "o3de.bat register",
     create_project    |-> "o3de.bat create-project",
     cmake_project     |-> "cmake -B project_build -S project",
     cmake_build       |-> "cmake --build"]

\* subprocess.run, first half: the child is spawned
Launch ==
    /\ pc \in DOMAIN CmdAt
    /\ ~waiting
    /\ waiting' = TRUE
    /\ running' = running \cup {CmdAt[pc]}
    /\ invoked' = Append(invoked, [cmd |-> CmdAt[pc], st |-> "running", rc |-> 0])
    /\ UNCHANGED <<pc, i, pathVars, nukeVars, fs, fs_start, typed, trace,
                   printed, result, exit_status>>

\* subprocess.run, second half: the call returns (or raises) with outcome out
Reaped(out) ==
    /\ waiting
    /\ waiting' = FALSE
    /\ running' = running \ {CmdAt[pc]}
    /\ invoked' = [invoked EXCEPT ![Len(invoked)] =
                      [cmd |-> CmdAt[pc], st |-> out.st, rc |-> out.rc]]

Succeeded(out) == out.st = "exited" /\ out.rc = 0

-----------------------------------------------------------------------------
(* O3DESetup.__init__ and the start of run() *)

Init ==
    /\ pc = "start"
    /\ waiting = FALSE
    /\ running = {}
    /\ invoked = <<>>
    /\ i = 0
    /\ n = 0
    /\ o3de_source = None
    /\ build_path = None
    /\ packages_path = None
    /\ project_path = None
    /\ project_name = <<>>
    /\ fs \in StartFilesystems
    /\ fs_start = fs
    /\ typed = <<>>
    /\ prompted = {}
    /\ confirmed = {}
    /\ trace = <<>>
    /\ printed = {}
    /\ result = "none"
    /\ exit_status = -1

\* setup.run() is called and calls check_prerequisites
Run ==
    /\ pc = "start"
    /\ pc' = "git_version"
    /\ trace' = Call(trace, "check_prerequisites")
    /\ UNCHANGED <<procVars, i, pathVars, nukeVars, fs, fs_start, typed,
                   printed, result, exit_status>>

-----------------------------------------------------------------------------
(* check_prerequisites *)

\* check_prerequisites returns False; run() reports it and returns False
PrereqFails ==
    /\ trace' = Ret(trace, "False")
    /\ printed' = printed \cup {"Prerequisites not met"}
    /\ result' = "False"
    /\ pc' = "returned"

PrereqGoesOn(next) ==
    /\ pc' = next
    /\ UNCHANGED <<trace, printed, result>>

\* check_prerequisites returns True; run() calls get_user_paths
PrereqPasses ==
    /\ trace' = Call(Ret(trace, "True"), "get_user_paths")
    /\ pc' = "ask_source"
    /\ UNCHANGED <<printed, result>>

\* git --version: only FileNotFoundError is handled, the exit code is not read
GitVersion ==
    /\ pc = "git_version"
    /\ \E out \in Outcomes :
          /\ Reaped(out)
          /\ IF out.st = "notfound" THEN PrereqFails ELSE PrereqGoesOn("lfs_version")
    /\ UNCHANGED <<i, pathVars, nukeVars, fs, fs_start, typed, exit_status>>

\* git lfs --version: any exception leads to the fallback, the exit code is
\* not read
LfsVersion ==
    /\ pc = "lfs_version"
    /\ \E out \in Outcomes :
          /\ Reaped(out)
          /\ IF out.st = "notfound"
             THEN PrereqGoesOn("lfs_install")
             ELSE PrereqGoesOn("cmake_version")
    /\ UNCHANGED <<i, pathVars, nukeVars, fs, fs_start, typed, exit_status>>

\* the fallback git lfs install, check=True: a non-zero exit code raises
\* CalledProcessError, which the bare except turns into return False
LfsInstall ==
    /\ pc = "lfs_install"
    /\ \E out \in Outcomes :
          /\ Reaped(out)
          /\ IF Succeeded(out) THEN PrereqGoesOn("cmake_version") ELSE PrereqFails
    /\ UNCHANGED <<i, pathVars, nukeVars, fs, fs_start, typed, exit_status>>

\* cmake --version: only FileNotFoundError is handled, the exit code is not read
CmakeVersion ==
    /\ pc = "cmake_version"
    /\ \E out \in Outcomes :
          /\ Reaped(out)
          /\ IF out.st = "notfound" THEN PrereqFails ELSE PrereqPasses
    /\ UNCHANGED <<i, pathVars, nukeVars, fs, fs_start, typed, exit_status>>

-----------------------------------------------------------------------------
(* get_user_paths: each prompt reads one line from the set In *)

default_source == <<"C:", "\\", "o3de">>
default_packages == <<"C:", "\\", "o3de-packages">>
default_project == <<"C:", "\\", "my-o3de-project">>

\* AskSource with the line used as typed, .strip() forgotten
AskSource_Unstripped(In) ==
    /\ pc = "ask_source"
    /\ \E line \in In :
          LET source_input == line IN
          /\ typed' = line
          /\ o3de_source' = IF source_input # <<>> THEN PathOf(source_input)
                                                   ELSE PathOf(default_source)
    /\ pc' = "ask_build"
    /\ UNCHANGED <<procVars, i, build_path, packages_path, project_path,
                   project_name, nukeVars, fs, fs_start, trace, printed, result,
                   exit_status>>

AskSource(In) ==
    /\ pc = "ask_source"
    /\ \E line \in In :
          LET source_input == Strip(line) IN
          /\ typed' = line
          /\ o3de_source' = IF source_input # <<>> THEN PathOf(source_input)
                                                   ELSE PathOf(default_source)
    /\ pc' = "ask_build"
    /\ UNCHANGED <<procVars, i, build_path, packages_path, project_path,
                   project_name, nukeVars, fs, fs_start, trace, printed, result,
                   exit_status>>

AskBuild(In) ==
    /\ pc = "ask_build"
    /\ \E line \in In :
          LET default_build == Join(Join(o3de_source, "build"), "windows")
              build_input == Strip(line) IN
          /\ typed' = line
          /\ build_path' = IF build_input # <<>> THEN PathOf(build_input)
                                                 ELSE default_build
    /\ pc' = "ask_packages"
    /\ UNCHANGED <<procVars, i, o3de_source, packages_path, project_path,
                   project_name, nukeVars, fs, fs_start, trace, printed, result,
                   exit_status>>

AskPackages(In) ==
    /\ pc = "ask_packages"
    /\ \E line \in In :
          LET packages_input == Strip(line) IN
          /\ typed' = line
          /\ packages_path' = IF packages_input # <<>> THEN PathOf(packages_input)
                                                       ELSE PathOf(default_packages)
    /\ pc' = "ask_project"
    /\ UNCHANGED <<procVars, i, o3de_source, build_path, project_path,
                   project_name, nukeVars, fs, fs_start, trace, printed, result,
                   exit_status>>

AskProject(In) ==
    /\ pc = "ask_project"
    /\ \E line \in In :
          LET project_input == Strip(line) IN
          /\ typed' = line
          /\ project_path' = IF project_input # <<>> THEN PathOf(project_input)
                                                     ELSE PathOf(default_project)
          /\ project_name' = NameOf(project_path')
    /\ pc' = "ask_confirm"
    /\ UNCHANGED <<procVars, i, o3de_source, build_path, packages_path,
                   nukeVars, fs, fs_start, trace, printed, result, exit_status>>

\* AskConfirm with .lower() forgotten
AskConfirm_CaseSensitive(In) ==
    /\ pc = "ask_confirm"
    /\ \E line \in In :
          LET confirm == Strip(line) IN
          /\ typed' = line
          /\ IF confirm = <<"y">>
             THEN /\ trace' = Call(Ret(trace, "True"), "nuke_existing_installations")
                  /\ pc' = "nuke"
                  /\ n' = 1
                  /\ UNCHANGED <<printed, result>>
             ELSE /\ trace' = Ret(trace, "False")
                  /\ printed' = printed \cup {"Setup cancelled by user"}
                  /\ result' = "False"
                  /\ pc' = "returned"
                  /\ UNCHANGED n
    /\ UNCHANGED <<procVars, i, pathVars, prompted, confirmed, fs, fs_start,
                   exit_status>>

\* AskConfirm with run()'s `return False` after the cancellation message
\* forgotten: the run falls through to the cleanup
AskConfirm_FallsThrough(In) ==
    /\ pc = "ask_confirm"
    /\ \E line \in In :
          LET confirm == Lower(Strip(line)) IN
          /\ typed' = line
          /\ IF confirm = <<"y">>
             THEN /\ trace' = Call(Ret(trace, "True"), "nuke_existing_installations")
                  /\ UNCHANGED printed
             ELSE /\ trace' = Call(Ret(trace, "False"), "nuke_existing_installations")
                  /\ printed' = printed \cup {"Setup cancelled by user"}
          /\ pc' = "nuke"
          /\ n' = 1
          /\ UNCHANGED result
    /\ UNCHANGED <<procVars, i, pathVars, prompted, confirmed, fs, fs_start,
                   exit_status>>

\* "Proceed with these settings? (y/n): " and what run() does with the answer
AskConfirm(In) ==
    /\ pc = "ask_confirm"
    /\ \E line \in In :
          LET confirm == Lower(Strip(line)) IN
          /\ typed' = line
          /\ IF confirm = <<"y">>
             THEN /\ trace' = Call(Ret(trace, "True"), "nuke_existing_installations")
                  /\ pc' = "nuke"
                  /\ n' = 1
                  /\ UNCHANGED <<printed, result>>
             ELSE /\ trace' = Ret(trace, "False")
                  /\ printed' = printed \cup {"Setup cancelled by user"}
                  /\ result' = "False"
                  /\ pc' = "returned"
                  /\ UNCHANGED n
    /\ UNCHANGED <<procVars, i, pathVars, prompted, confirmed, fs, fs_start,
                   exit_status>>

-----------------------------------------------------------------------------
(* nuke_existing_installations: one iteration of the loop over paths_to_check *)

paths_to_check == <<o3de_source, PathOf(<<"C:", "\\", "O3DE">>), build_path>>

\* the steps run() executes, in order
steps ==
    <<"clone_repo", "verify_git_repo", "create_packages_dir", "configure_engine",
      "register_engine", "create_project", "configure_project">>

\* Nuke with the test written as confirm != 'n'
Nuke_DeletesUnlessNo(In) ==
    /\ pc = "nuke"
    /\ LET path == paths_to_check[n] IN
       IF Exists(path, fs)
       THEN \E line \in In :
               LET confirm == Lower(Strip(line)) IN
               /\ typed' = line
               /\ prompted' = prompted \cup {path}
               /\ confirmed' = IF confirm = <<"y">> THEN confirmed \cup {path}
                                                    ELSE confirmed
               /\ IF confirm # <<"n">>
                  THEN fs' \in RmtreeOutcomes(path, fs)
                  ELSE UNCHANGED fs
       ELSE UNCHANGED <<typed, prompted, confirmed, fs>>
    /\ IF n < Len(paths_to_check)
       THEN /\ n' = n + 1
            /\ UNCHANGED <<pc, i, trace>>
       ELSE /\ trace' = Call(Ret(trace, "True"), steps[1])
            /\ i' = 1
            /\ pc' = steps[1]
            /\ UNCHANGED n
    /\ UNCHANGED <<procVars, pathVars, fs_start, printed, result, exit_status>>

\* rmtree is called with ignore_errors=True, so the except branch that returns
\* False is never taken: the function always returns True.
Nuke(In) ==
    /\ pc = "nuke"
    /\ LET path == paths_to_check[n] IN
       IF Exists(path, fs)
       THEN \E line \in In :
               LET confirm == Lower(Strip(line)) IN
               /\ typed' = line
               /\ prompted' = prompted \cup {path}
               /\ IF confirm = <<"y">>
                  THEN /\ fs' \in RmtreeOutcomes(path, fs)
                       /\ confirmed' = confirmed \cup {path}
                  ELSE UNCHANGED <<fs, confirmed>>
       ELSE UNCHANGED <<typed, prompted, confirmed, fs>>
    /\ IF n < Len(paths_to_check)
       THEN /\ n' = n + 1
            /\ UNCHANGED <<pc, i, trace>>
       ELSE /\ trace' = Call(Ret(trace, "True"), steps[1])
            /\ i' = 1
            /\ pc' = steps[1]
            /\ UNCHANGED n
    /\ UNCHANGED <<procVars, pathVars, fs_start, printed, result, exit_status>>

-----------------------------------------------------------------------------
(* run(): the loop over steps *)

\* StepReturns with the `return False` of a failed step forgotten
StepReturns_CarriesOn(ret) ==
    IF ret # "raised"
    THEN /\ IF i < Len(steps)
            THEN /\ i' = i + 1
                 /\ pc' = steps[i + 1]
                 /\ trace' = Call(Ret(trace, ret), steps[i + 1])
            ELSE /\ pc' = "ask_build_now"
                 /\ trace' = Ret(trace, ret)
                 /\ UNCHANGED i
         /\ printed' = IF ret = "True" THEN printed
                       ELSE printed \cup {"Setup failed at step"}
         /\ UNCHANGED result
    ELSE /\ trace' = Ret(trace, ret)
         /\ printed' = printed \cup {"Setup failed at step"}
         /\ result' = "False"
         /\ pc' = "returned"
         /\ UNCHANGED i

\* step_func() returned ret ("True" or "False") or raised ("raised")
StepReturns(ret) ==
    IF ret = "True"
    THEN /\ IF i < Len(steps)
            THEN /\ i' = i + 1
                 /\ pc' = steps[i + 1]
                 /\ trace' = Call(Ret(trace, ret), steps[i + 1])
            ELSE /\ pc' = "ask_build_now"
                 /\ trace' = Ret(trace, ret)
                 /\ UNCHANGED i
         /\ UNCHANGED <<printed, result>>
    ELSE /\ trace' = Ret(trace, ret)
         /\ printed' = printed \cup {"Setup failed at step"}
         /\ result' = "False"
         /\ pc' = "returned"
         /\ UNCHANGED i

\* the step goes on to its next statement
StepGoesOn(next) ==
    /\ pc' = next
    /\ UNCHANGED <<i, trace, printed, result>>

\* a step's subprocess.run(..., check=True) inside try/except
\* CalledProcessError: success goes on, a non-zero exit code returns False,
\* FileNotFoundError escapes to run()'s except Exception
Checked(out, onSuccess) ==
    IF Succeeded(out) THEN onSuccess
    ELSE IF out.st = "exited" THEN StepReturns("False")
    ELSE StepReturns("raised")

-----------------------------------------------------------------------------
(* clone_repo *)

\* CloneRepo without the test that the source directory is absent
CloneRepo_Unchecked ==
    /\ pc = "clone_repo"
    /\ \E made \in BOOLEAN :
          IF made
          THEN /\ fs' = Mkdir(Parent(o3de_source), fs)
               /\ StepGoesOn("git_clone")
          ELSE /\ StepReturns("raised")
               /\ UNCHANGED fs
    /\ UNCHANGED <<procVars, pathVars, nukeVars, fs_start, typed, exit_status>>

CloneRepo ==
    /\ pc = "clone_repo"
    /\ IF Exists(o3de_source, fs)
       THEN /\ StepReturns("False")
            /\ UNCHANGED fs
       ELSE \E made \in BOOLEAN :
               IF made
               THEN /\ fs' = Mkdir(Parent(o3de_source), fs)
                    /\ StepGoesOn("git_clone")
               ELSE /\ StepReturns("raised")
                    /\ UNCHANGED fs
    /\ UNCHANGED <<procVars, pathVars, nukeVars, fs_start, typed, exit_status>>

\* what git clone leaves behind: on success the work tree, whose .git and
\* CMakeLists.txt verify_git_repo looks for; on failure nothing or a stub
CloneEffects(out) ==
    IF Succeeded(out)
    THEN {Mkdir(o3de_source, fs) \cup Closure(X) :
            X \in SUBSET {Join(o3de_source, ".git"),
                          Join(o3de_source, "CMakeLists.txt")}}
    ELSE IF out.st = "exited" THEN {fs, Mkdir(o3de_source, fs)}
    ELSE {fs}

GitClone ==
    /\ pc = "git_clone"
    /\ \E out \in Outcomes :
          /\ Reaped(out)
          /\ fs' \in CloneEffects(out)
          /\ Checked(out, StepGoesOn("clone_lfs_install"))
    /\ UNCHANGED <<pathVars, nukeVars, fs_start, typed, exit_status>>

CloneLfsInstall ==
    /\ pc = "clone_lfs_install"
    /\ \E out \in Outcomes :
          /\ Reaped(out)
          /\ Checked(out, StepGoesOn("clone_lfs_pull"))
    /\ UNCHANGED <<pathVars, nukeVars, fs, fs_start, typed, exit_status>>

CloneLfsPull ==
    /\ pc = "clone_lfs_pull"
    /\ \E out \in Outcomes :
          /\ Reaped(out)
          /\ Checked(out, StepReturns("True"))
    /\ UNCHANGED <<pathVars, nukeVars, fs, fs_start, typed, exit_status>>

-----------------------------------------------------------------------------
(* verify_git_repo *)

VerifyGitRepo ==
    /\ pc = "verify_git_repo"
    /\ LET git_dir == Join(o3de_source, ".git")
           cmake_file == Join(o3de_source, "CMakeLists.txt") IN
       IF ~Exists(git_dir, fs) THEN StepReturns("False")
       ELSE IF ~Exists(cmake_file, fs) THEN StepReturns("False")
       ELSE StepGoesOn("git_remote")
    /\ UNCHANGED <<procVars, pathVars, nukeVars, fs, fs_start, typed, exit_status>>

\* git remote get-url origin; is_o3de: 'o3de' in result.stdout.lower()
GitRemote ==
    /\ pc = "git_remote"
    /\ \E out \in Outcomes, is_o3de \in BOOLEAN :
          /\ Reaped(out)
          /\ Checked(out, StepReturns(IF is_o3de THEN "True" ELSE "False"))
    /\ UNCHANGED <<pathVars, nukeVars, fs, fs_start, typed, exit_status>>

-----------------------------------------------------------------------------
(* create_packages_dir, configure_engine, register_engine *)

CreatePackagesDir ==
    /\ pc = "create_packages_dir"
    /\ IF ~Exists(packages_path, fs)
       THEN \E made \in BOOLEAN :
               IF made
               THEN /\ fs' = Mkdir(packages_path, fs)
                    /\ StepReturns("True")
               ELSE /\ StepReturns("raised")
                    /\ UNCHANGED fs
       ELSE /\ StepReturns("True")
            /\ UNCHANGED fs
    /\ UNCHANGED <<procVars, pathVars, nukeVars, fs_start, typed, exit_status>>

ConfigureEngine ==
    /\ pc = "configure_engine"
    /\ \E made \in BOOLEAN :
          IF made
          THEN /\ fs' = Mkdir(build_path, fs)
               /\ StepGoesOn("cmake_engine")
          ELSE /\ StepReturns("raised")
               /\ UNCHANGED fs
    /\ UNCHANGED <<procVars, pathVars, nukeVars, fs_start, typed, exit_status>>

CmakeEngine ==
    /\ pc = "cmake_engine"
    /\ \E out \in Outcomes :
          /\ Reaped(out)
          /\ Checked(out, StepReturns("True"))
    /\ UNCHANGED <<pathVars, nukeVars, fs, fs_start, typed, exit_status>>

RegisterEngine ==
    /\ pc = "register_engine"
    /\ \E out \in Outcomes :
          /\ Reaped(out)
          /\ Checked(out, StepReturns("True"))
    /\ UNCHANGED <<pathVars, nukeVars, fs, fs_start, typed, exit_status>>

-----------------------------------------------------------------------------
(* create_project, configure_project *)

\* o3de.bat create-project scaffolds the project directory when it succeeds
CreateProject ==
    /\ pc = "create_project"
    /\ \E out \in Outcomes :
          /\ Reaped(out)
          /\ fs' = IF Succeeded(out) THEN Mkdir(project_path, fs) ELSE fs
          /\ Checked(out, StepReturns("True"))
    /\ UNCHANGED <<pathVars, nukeVars, fs_start, typed, exit_status>>

ConfigureProject ==
    /\ pc = "configure_project"
    /\ \E made \in BOOLEAN :
          LET project_build == Join(Join(project_path, "build"), "windows") IN
          IF made
          THEN /\ fs' = Mkdir(project_build, fs)
               /\ StepGoesOn("cmake_project")
          ELSE /\ StepReturns("raised")
               /\ UNCHANGED fs
    /\ UNCHANGED <<procVars, pathVars, nukeVars, fs_start, typed, exit_status>>

CmakeProject ==
    /\ pc = "cmake_project"
    /\ \E out \in Outcomes :
          /\ Reaped(out)
          /\ Checked(out, StepReturns("True"))
    /\ UNCHANGED <<pathVars, nukeVars, fs, fs_start, typed, exit_status>>

-----------------------------------------------------------------------------
(* The end of run(): the build prompt, build_project, and __main__ *)

\* run() prints the closing banner and returns True
Completes ==
    /\ printed' = printed \cup {"Setup Complete!"}
    /\ result' = "True"
    /\ pc' = "returned"

\* AskBuildNow with the test written as build != 'n'
AskBuildNow_BuildsUnlessNo(In) ==
    /\ pc = "ask_build_now"
    /\ \E line \in In :
          LET build == Lower(Strip(line)) IN
          /\ typed' = line
          /\ IF build # <<"n">>
             THEN /\ trace' = Call(trace, "build_project")
                  /\ pc' = "cmake_build"
                  /\ UNCHANGED <<printed, result>>
             ELSE /\ Completes
                  /\ UNCHANGED trace
    /\ UNCHANGED <<procVars, i, pathVars, nukeVars, fs, fs_start, exit_status>>

\* "Build the project now? (This takes 30-60 minutes) (y/n): "
AskBuildNow(In) ==
    /\ pc = "ask_build_now"
    /\ \E line \in In :
          LET build == Lower(Strip(line)) IN
          /\ typed' = line
          /\ IF build = <<"y">>
             THEN /\ trace' = Call(trace, "build_project")
                  /\ pc' = "cmake_build"
                  /\ UNCHANGED <<printed, result>>
             ELSE /\ Completes
                  /\ UNCHANGED trace
    /\ UNCHANGED <<procVars, i, pathVars, nukeVars, fs, fs_start, exit_status>>

\* build_project: cmake --build with check=True; run() does not read what
\* build_project returns.  FileNotFoundError is caught nowhere and ends run().
BuildProject ==
    /\ pc = "cmake_build"
    /\ \E out \in Outcomes :
          /\ Reaped(out)
          /\ IF out.st = "exited"
             THEN /\ trace' = Ret(trace, IF out.rc = 0 THEN "True" ELSE "False")
                  /\ Completes
             ELSE /\ trace' = Ret(trace, "raised")
                  /\ result' = "raised"
                  /\ pc' = "returned"
                  /\ UNCHANGED printed
    /\ UNCHANGED <<i, pathVars, nukeVars, fs, fs_start, typed, exit_status>>

\* sys.exit(0 if success else 1); an uncaught exception exits with status 1
Exit ==
    /\ pc = "returned"
    /\ exit_status' = IF result = "True" THEN 0 ELSE 1
    /\ pc' = "exited"
    /\ UNCHANGED <<procVars, i, pathVars, nukeVars, fs, fs_start, typed, trace,
                   printed, result>>

-----------------------------------------------------------------------------
(* Specifications *)

\* a whole run of the script
Next ==
    \/ Run
    \/ Launch
    \/ GitVersion
    \/ LfsVersion
    \/ LfsInstall
    \/ CmakeVersion
    \/ AskSource(RunLines)
    \/ AskBuild(RunLines)
    \/ AskPackages(RunLines)
    \/ AskProject(RunLines)
    \/ AskConfirm(RunAnswers)
    \/ Nuke(RunAnswers)
    \/ CloneRepo
    \/ GitClone
    \/ CloneLfsInstall
    \/ CloneLfsPull
    \/ VerifyGitRepo
    \/ GitRemote
    \/ CreatePackagesDir
    \/ ConfigureEngine
    \/ CmakeEngine
    \/ RegisterEngine
    \/ CreateProject
    \/ ConfigureProject
    \/ CmakeProject
    \/ AskBuildNow(RunAnswers)
    \/ BuildProject
    \/ Exit

Spec == Init /\ [][Next]_vars

\* get_user_paths alone, on every line of at most MaxLen symbols, entered
\* after a prerequisite check in which every tool answered with exit code 0
InitPaths ==
    /\ pc = "ask_source"
    /\ waiting = FALSE
    /\ running = {}
    /\ invoked = [k \in 1..3 |->
                    [cmd |-> <<"git --version", "git lfs --version",
                               "cmake --version">>[k],
                     st |-> "exited", rc |-> 0]]
    /\ i = 0
    /\ n = 0
    /\ o3de_source = None
    /\ build_path = None
    /\ packages_path = None
    /\ project_path = None
    /\ project_name = <<>>
    /\ fs = Closure({})
    /\ fs_start = fs
    /\ typed = <<>>
    /\ prompted = {}
    /\ confirmed = {}
    /\ trace = Call(Ret(Call(<<>>, "check_prerequisites"), "True"), "get_user_paths")
    /\ printed = {}
    /\ result = "none"
    /\ exit_status = -1

NextPaths ==
    \/ AskSource(Texts(PathChars, MaxLen))
    \/ AskBuild(Texts(PathChars, MaxLen))
    \/ AskPackages(Texts(PathChars, MaxLen))
    \/ AskProject(Texts(PathChars, MaxLen))
    \/ AskConfirm(Texts(AnsChars, MaxLen))
    \/ Exit

SpecPaths == InitPaths /\ [][NextPaths]_vars

-----------------------------------------------------------------------------
(* Properties *)

\* a logged command that ran and exited with a non-zero code
Failed(e) == e.st = "exited" /\ e.rc # 0

\* an affirmative answer: one y or Y, with blanks around it at most
IsYes(t) ==
    \E k \in DOMAIN t :
       /\ t[k] \in {"y", "Y"}
       /\ \A j \in DOMAIN t \ {k} : t[j] = " "

Blank(t) == \A k \in DOMAIN t : t[k] = " "

\* a text that is not blank, from its first to its last non-blank symbol
Trimmed(t) ==
    LET nb == {k \in DOMAIN t : t[k] # " "}
        first == CHOOSE k \in nb : \A j \in nb : k <= j
        last == CHOOSE k \in nb : \A j \in nb : j <= k
    IN SubSeq(t, first, last)

\* the path a prompt stores for line t
Entered(t, default) == IF Blank(t) THEN default ELSE PathOf(Trimmed(t))

\* the same, were the line taken as typed
EnteredAsTyped(t, default) == IF t = <<>> THEN default ELSE PathOf(t)

Cancelled == "Setup cancelled by user" \in printed
PrereqFailed == "Prerequisites not met" \in printed

PrereqCmds ==
    {"git --version", "git lfs --version", "git lfs install", "cmake --version"}

\* the fixed order of the functions run() calls
Order ==
    <<"check_prerequisites", "get_user_paths", "nuke_existing_installations",
      "clone_repo", "verify_git_repo", "create_packages_dir", "configure_engine",
      "register_engine", "create_project", "configure_project", "build_project">>

\* the fixed order of the external commands
CmdOrder ==
    <<"git --version", "git lfs --version", "git lfs install", "cmake --version",
      "git clone", "git lfs install (repo)", "git lfs pull",
      "git remote get-url origin", "cmake -B build -S source",
      "o3de.bat register", "o3de.bat create-project",
      "cmake -B project_build -S project", "cmake --build">>

Rank(c) == CHOOSE k \in 1..Len(CmdOrder) : CmdOrder[k] = c

Candidates == {paths_to_check[k] : k \in 1..Len(paths_to_check)}

\* the deletion prompt for the directory p names was answered affirmatively
ConfirmedFor(p) == \E c \in confirmed : Key(c) = Key(p)

\* ... or so was the prompt for a directory that contains it
CoveredBy(p) == \E c \in confirmed : IsPrefix(Key(c), Key(p))

Builds == {k \in DOMAIN invoked : invoked[k].cmd = "cmake --build"}

\* C1: once an external command has exited with a non-zero code, no further
\* external command is invoked: a failed command is the last one of the log.
C1_HaltsOnFirstNonZero ==
    \A k \in DOMAIN invoked : Failed(invoked[k]) => k = Len(invoked)

\* C2: when any external command of the run exited with a non-zero code, the
\* run reports failure: run() returns False, the process exits with status 1
\* and the closing banner is not printed.
C2_FailureIsReported ==
    (pc = "exited" /\ \E k \in DOMAIN invoked : Failed(invoked[k]))
        => /\ result = "False"
           /\ exit_status = 1
           /\ "Setup Complete!" \notin printed

\* C3 as stated: the run proceeds past the confirmation prompt if and only
\* if the line entered is exactly y.
C3_ExactlyY ==
    pc \in {"nuke", "returned", "exited"} => (pc = "nuke" <=> typed = <<"y">>)

\* C3 as amended: the run proceeds past the confirmation prompt if and only if
\* the line entered is y or Y with nothing but blanks around it; on every
\* other line get_user_paths returns False and run() reports the cancellation
\* and returns False.
C3_ProceedsIffYes ==
    pc \in {"nuke", "returned", "exited"} =>
        IF IsYes(typed)
        THEN /\ pc = "nuke"
             /\ trace[2].ret = "True"
             /\ ~Cancelled
             /\ result = "none"
        ELSE /\ pc # "nuke"
             /\ trace[2].ret = "False"
             /\ Cancelled
             /\ result = "False"

C3_Witness == pc = "nuke" /\ typed = <<" ", "Y">>

\* C4 as stated: after the cleanup, a candidate directory that existed before
\* it and whose own deletion prompt was not answered affirmatively still
\* exists.
C4_OnlyOwnConfirmation ==
    pc = "clone_repo" =>
        \A p \in Candidates :
           (Key(p) \in fs_start /\ ~ConfirmedFor(p)) => Key(p) \in fs

\* C4 as amended: a candidate directory that existed before the cleanup still
\* exists unless the deletion prompt was answered affirmatively for it or for
\* a candidate directory that contains it.
C4_OnlyConfirmedTrees ==
    n >= 1 =>
        \A p \in Candidates :
           (Key(p) \in fs_start /\ ~CoveredBy(p)) => Key(p) \in fs

C4_Witness ==
    /\ pc = "clone_repo"
    /\ \E p, c \in Candidates :
          /\ c \in confirmed
          /\ Key(c) \notin fs
          /\ Key(p) \in fs_start
          /\ p \in prompted
          /\ ~CoveredBy(p)
          /\ Key(p) \in fs

\* C5 as stated: each path prompt stores its default on empty input and the
\* input itself on any other, and project_name is the last component of the
\* project path.
C5_DefaultOrInputAsTyped ==
    /\ pc = "ask_build" =>
          o3de_source = EnteredAsTyped(typed, << <<"C:">>, <<"o3de">> >>)
    /\ pc = "ask_packages" =>
          build_path = EnteredAsTyped(typed,
                          o3de_source \o << <<"build">>, <<"windows">> >>)
    /\ pc = "ask_project" =>
          packages_path = EnteredAsTyped(typed, << <<"C:">>, <<"o3de-packages">> >>)
    /\ pc = "ask_confirm" =>
          /\ project_path = EnteredAsTyped(typed, << <<"C:">>, <<"my-o3de-project">> >>)
          /\ project_path # <<>> => project_name = project_path[Len(project_path)]

\* C5 as amended: each path prompt stores its default when the line entered
\* is empty or blank, and otherwise the path named by the line without its
\* leading and trailing blanks; the default build path is build\windows under
\* the source path chosen; project_name is the last component of the project
\* path.
C5_DefaultOrTrimmedInput ==
    /\ pc = "ask_build" =>
          o3de_source = Entered(typed, << <<"C:">>, <<"o3de">> >>)
    /\ pc = "ask_packages" =>
          build_path = Entered(typed, o3de_source \o << <<"build">>, <<"windows">> >>)
    /\ pc = "ask_project" =>
          packages_path = Entered(typed, << <<"C:">>, <<"o3de-packages">> >>)
    /\ pc = "ask_confirm" =>
          project_path = Entered(typed, << <<"C:">>, <<"my-o3de-project">> >>)
    /\ (project_path # None /\ project_path # <<>>) =>
          project_name = project_path[Len(project_path)]
    /\ project_path = <<>> => project_name = <<>>

C5_Witness ==
    /\ pc = "ask_packages"
    /\ typed = <<" ">>
    /\ o3de_source = << <<"a">> >>
    /\ build_path = << <<"a">>, <<"build">>, <<"windows">> >>

\* C6: check_prerequisites returns True only if no tool-verification command
\* it ran exited with a non-zero code.
C6_PrereqNeedsExitZero ==
    (Len(trace) >= 1 /\ trace[1].ret = "True") =>
        \A k \in DOMAIN invoked :
           invoked[k].cmd \in PrereqCmds => ~Failed(invoked[k])

\* C7: the functions are called in the fixed order, none skipped or repeated,
\* each only after the one before it returned True; the external commands
\* are run in their fixed order, none twice, at most one at a time.
C7_StrictlySequential ==
    /\ Cardinality(running) <= 1
    /\ Len(trace) <= Len(Order)
    /\ \A k \in DOMAIN trace : trace[k].fn = Order[k]
    /\ \A k \in DOMAIN trace : k < Len(trace) => trace[k].ret = "True"
    /\ \A j, k \in DOMAIN invoked :
          j < k => Rank(invoked[j].cmd) < Rank(invoked[k].cmd)
    /\ \A k \in DOMAIN invoked : k < Len(invoked) => invoked[k].st # "running"

C7_Witness ==
    /\ pc = "cmake_project"
    /\ waiting
    /\ running = {"cmake -B project_build -S project"}
    /\ Len(trace) = 10

\* C8: cmake --build is invoked at most once, and only after all seven steps
\* returned True and the build prompt was answered affirmatively.
C8_BuildOnlyOnRequest ==
    /\ Cardinality(Builds) <= 1
    /\ Builds # {} =>
          /\ IsYes(typed)
          /\ Len(trace) = 11
          /\ \A k \in 4..10 : trace[k].fn = Order[k] /\ trace[k].ret = "True"

C8_Witness == pc = "exited" /\ Builds # {} /\ result = "True"

\* git clone is being launched in this step
CloneLaunched ==
    /\ Len(invoked') = Len(invoked) + 1
    /\ invoked'[Len(invoked')].cmd = "git clone"

\* C9: git clone is never launched while the source directory exists; when
\* clone_repo finds the directory it returns False without running a command
\* and run() returns False; after a failed step 1 no later step is called and
\* none of their commands is run.
C9_NoCloneOverExisting ==
    /\ [][CloneLaunched => ~Exists(o3de_source, fs)]_vars
    /\ [][(pc = "clone_repo" /\ Exists(o3de_source, fs)) =>
             /\ invoked' = invoked
             /\ trace' = Ret(trace, "False")
             /\ result' = "False"
             /\ pc' = "returned"]_vars
    /\ []((Len(trace) >= 4 /\ trace[4].ret = "False") =>
             /\ Len(trace) = 4
             /\ \A k \in DOMAIN invoked : Rank(invoked[k].cmd) <= Rank("git lfs pull"))

C9_Witness ==
    /\ pc = "returned"
    /\ Len(trace) = 4
    /\ trace[4].ret = "False"
    /\ o3de_source \in confirmed
    /\ Exists(o3de_source, fs)
    /\ \A k \in DOMAIN invoked : invoked[k].cmd \in PrereqCmds

\* C10 as stated: after a cancellation or a failed prerequisite check the
\* filesystem is as it was, no deletion prompt was shown, and no git clone,
\* cmake or o3de.bat command has run.
C10_NothingRan ==
    (Cancelled \/ PrereqFailed) =>
        /\ fs = fs_start
        /\ prompted = {}
        /\ \A k \in DOMAIN invoked :
              invoked[k].st = "exited" =>
                 invoked[k].cmd \notin
                    {"git clone", "cmake --version", "cmake -B build -S source",
                     "cmake -B project_build -S project", "cmake --build",
                     "o3de.bat register", "o3de.bat create-project"}

\* C10 as amended: after a cancellation or a failed prerequisite check the
\* filesystem is as it was, no deletion prompt was shown, and the only
\* external commands invoked are the tool checks of check_prerequisites
\* (cmake --version among them): no git clone, no cmake configuration or
\* build, no o3de.bat.
C10_OnlyToolChecksRan ==
    (Cancelled \/ PrereqFailed) =>
        /\ fs = fs_start
        /\ prompted = {}
        /\ confirmed = {}
        /\ \A k \in DOMAIN invoked : invoked[k].cmd \in PrereqCmds

C10_Witness ==
    /\ pc = "exited"
    /\ Cancelled
    /\ Key(o3de_source) \in fs
    /\ \E k \in DOMAIN invoked : invoked[k].cmd = "cmake --version"

=============================================================================
